---------------------------- MODULE Spec2Model ----------------------------
(***************************************************************************)
(* Model of the mssql_python Rust bindings:                                *)
(*   - lib.rs:       RustConnection and the connection-string helpers      *)
(*   - bulk_copy.rs: BulkCopyWrapper around mssql_core_tds.DdbcConnection  *)
(*                                                                         *)
(* Strings handled character by character (lib.rs) are sequences of        *)
(* one-character strings.  Messages assembled with format! in bulk_copy.rs *)
(* are sequences of text fragments, in the order format! emits them.       *)
(***************************************************************************)
EXTENDS Integers, Sequences, FiniteSets, TLC

VARIABLES
    \* ---- RustConnection (lib.rs) ----
    connection_string,  \* RustConnection.connection_string
    is_connected,       \* RustConnection.is_connected
    rc_last,            \* the last RustConnection method called, with its return value
    rc_lastCD,          \* history: the most recent of connect / disconnect ("none" before)
    \* ---- connection-string helpers (lib.rs) ----
    host, database, user,   \* arguments of format_connection_string
    formatted,              \* its return value
    parsed,                 \* the dict parse_connection_params returned
    str_pc,                 \* "args" -> "formatted" -> "parsed"
    \* ---- BulkCopyWrapper (bulk_copy.rs) ----
    wrapper,            \* the BulkCopyWrapper instance, or NoWrapper
    ext,                \* the external DdbcConnection object the wrapper was given
    bc_last,            \* the last BulkCopyWrapper call: inputs, external calls, result
    conn0               \* history: the connection reference obtained at construction

vars == <<connection_string, is_connected, rc_last, rc_lastCD,
          host, database, user, formatted, parsed, str_pc,
          wrapper, ext, bc_last, conn0>>

rcVars  == <<connection_string, is_connected, rc_last, rc_lastCD>>
strVars == <<host, database, user, formatted, parsed, str_pc>>
bcVars  == <<wrapper, ext, bc_last, conn0>>

---------------------------------------------------------------------------
(* Bounds *)

MaxLen == 2         \* longest input string (characters)
MaxCalls == 2       \* cap on the external object's call counters

---------------------------------------------------------------------------
(* Character strings *)

Alphabet == {"a", "=", ";", " "}

RECURSIVE StringsUpTo(_)
StringsUpTo(n) ==
    IF n = 0 THEN {<<>>}
    ELSE LET shorter == StringsUpTo(n - 1)
         IN  shorter \cup {Append(s, c) : s \in {t \in shorter : Len(t) = n - 1}, c \in Alphabet}

Strings == StringsUpTo(MaxLen)

IsWhitespace(c) == c = " "

\* str::trim: drop leading and trailing whitespace
RECURSIVE TrimStart(_)
TrimStart(s) ==
    IF s # <<>> /\ IsWhitespace(Head(s)) THEN TrimStart(Tail(s)) ELSE s

RECURSIVE TrimEnd(_)
TrimEnd(s) ==
    IF s # <<>> /\ IsWhitespace(s[Len(s)]) THEN TrimEnd(SubSeq(s, 1, Len(s) - 1)) ELSE s

Trim(s) == TrimEnd(TrimStart(s))

\* index of the first occurrence of c in s, 0 when there is none
RECURSIVE FindFrom(_, _, _)
FindFrom(s, c, i) ==
    IF i > Len(s) THEN 0
    ELSE IF s[i] = c THEN i
    ELSE FindFrom(s, c, i + 1)

Find(s, c) == FindFrom(s, c, 1)

\* index of the last occurrence of c in s, 0 when there is none
RECURSIVE RFindFrom(_, _, _)
RFindFrom(s, c, i) ==
    IF i = 0 THEN 0
    ELSE IF s[i] = c THEN i
    ELSE RFindFrom(s, c, i - 1)

\* str::split(c): the pieces between occurrences of c, empty pieces included
RECURSIVE Split(_, _)
Split(s, c) ==
    LET i == Find(s, c)
    IN  IF i = 0 THEN <<s>>
        ELSE <<SubSeq(s, 1, i - 1)>> \o Split(SubSeq(s, i + 1, Len(s)), c)

NoPair == [found |-> FALSE, key |-> <<>>, value |-> <<>>]

SplitOnceLast(s, c) ==
    LET i == RFindFrom(s, c, Len(s))
    IN  IF i = 0 THEN NoPair
        ELSE [found |-> TRUE, key |-> SubSeq(s, 1, i - 1), value |-> SubSeq(s, i + 1, Len(s))]

\* str::split_once(c): split at the first occurrence of c, None when there is none
SplitOnce(s, c) ==
    LET i == Find(s, c)
    IN  IF i = 0 THEN NoPair
        ELSE [found |-> TRUE, key |-> SubSeq(s, 1, i - 1), value |-> SubSeq(s, i + 1, Len(s))]

\* PyDict
EmptyDict == [k \in {} |-> <<>>]

SetItem(d, k, v) == [x \in (DOMAIN d) \cup {k} |-> IF x = k THEN v ELSE d[x]]

---------------------------------------------------------------------------
(* lib.rs: format_connection_string, parse_connection_params *)

\* format!("Server={};Database={};User Id={};", host, database, user)
format_connection_string(h, d, u) ==
    <<"S", "e", "r", "v", "e", "r", "=">> \o h
        \o <<";", "D", "a", "t", "a", "b", "a", "s", "e", "=">> \o d
        \o <<";", "U", "s", "e", "r", " ", "I", "d", "=">> \o u
        \o <<";">>

RECURSIVE ParseParts(_, _, _)
ParseParts(parts, i, dict) ==
    IF i > Len(parts) THEN dict
    ELSE LET kv == SplitOnce(parts[i], "=")
         IN  IF kv.found
             THEN ParseParts(parts, i + 1, SetItem(dict, Trim(kv.key), Trim(kv.value)))
             ELSE ParseParts(parts, i + 1, dict)

RECURSIVE ParsePartsLast(_, _, _)
ParsePartsLast(parts, i, dict) ==
    IF i > Len(parts) THEN dict
    ELSE LET kv == SplitOnceLast(parts[i], "=")
         IN  IF kv.found
             THEN ParsePartsLast(parts, i + 1, SetItem(dict, Trim(kv.key), Trim(kv.value)))
             ELSE ParsePartsLast(parts, i + 1, dict)

parse_connection_params_SplitAtLast(s) == ParsePartsLast(Split(s, ";"), 1, EmptyDict)

\* for part in connection_string.split(';') { if let Some((k, v)) = part.split_once('=') ... }
parse_connection_params(s) == ParseParts(Split(s, ";"), 1, EmptyDict)

StrInit ==
    /\ host \in Strings
    /\ database \in Strings
    /\ user \in Strings
    /\ formatted = <<>>
    /\ parsed = EmptyDict
    /\ str_pc = "args"

StrIdle ==
    /\ host = <<>>
    /\ database = <<>>
    /\ user = <<>>
    /\ formatted = <<>>
    /\ parsed = EmptyDict
    /\ str_pc = "args"

FormatConnectionString ==
    /\ str_pc = "args"
    /\ formatted' = format_connection_string(host, database, user)
    /\ str_pc' = "formatted"
    /\ UNCHANGED <<host, database, user, parsed>>

ParseConnectionParams ==
    /\ str_pc = "formatted"
    /\ parsed' = parse_connection_params(formatted)
    /\ str_pc' = "parsed"
    /\ UNCHANGED <<host, database, user, formatted>>

---------------------------------------------------------------------------
(* lib.rs: RustConnection *)

NoStr == <<>>

RcRet(op, ok, s, b) == [op |-> op, ok |-> ok, str |-> s, bool |-> b]

\* RustConnection::new
RustConnection_new(cs) == [connection_string |-> cs, is_connected |-> FALSE]

connect_NoFlag(self) ==
    [self |-> self,
     ok   |-> TRUE,
     ret  |-> <<"C", "o", "n", "n", "e", "c", "t", "e", "d", " ", "t", "o", ":", " ">>
                  \o self.connection_string]

\* RustConnection::connect
connect(self) ==
    [self |-> [self EXCEPT !.is_connected = TRUE],
     ok   |-> TRUE,
     ret  |-> <<"C", "o", "n", "n", "e", "c", "t", "e", "d", " ", "t", "o", ":", " ">>
                  \o self.connection_string]

\* RustConnection::disconnect
disconnect(self) == [self |-> [self EXCEPT !.is_connected = FALSE], ok |-> TRUE]

\* RustConnection::is_connected
is_connected_get(self) == self.is_connected

\* Display of a Rust bool
BoolText(b) == IF b THEN <<"t", "r", "u", "e">> ELSE <<"f", "a", "l", "s", "e">>

repr_Fixed(self) ==
    <<"R", "u", "s", "t", "C", "o", "n", "n", "e", "c", "t", "i", "o", "n", "(",
      "m", "s", "s", "q", "l", "_", "r", "u", "s", "t", "_", "b", "i", "n", "d", "i", "n", "g", "s", ")">>

\* RustConnection::__repr__
repr(self) ==
    <<"R", "u", "s", "t", "C", "o", "n", "n", "e", "c", "t", "i", "o", "n", "(",
      "c", "o", "n", "n", "e", "c", "t", "i", "o", "n", "_", "s", "t", "r", "i", "n", "g", "=", "'">>
        \o self.connection_string
        \o <<"'", ",", " ", "c", "o", "n", "n", "e", "c", "t", "e", "d", "=">>
        \o BoolText(self.is_connected)
        \o <<")">>

Self == [connection_string |-> connection_string, is_connected |-> is_connected]

RcInit ==
    /\ \E cs \in Strings :
          LET obj == RustConnection_new(cs)
          IN  /\ connection_string = obj.connection_string
              /\ is_connected = obj.is_connected
    /\ rc_last = RcRet("new", TRUE, NoStr, FALSE)
    /\ rc_lastCD = "none"

RcIdle ==
    /\ connection_string = <<>>
    /\ is_connected = FALSE
    /\ rc_last = RcRet("new", TRUE, NoStr, FALSE)
    /\ rc_lastCD = "none"

Connect ==
    LET out == connect(Self)
    IN  /\ connection_string' = out.self.connection_string
        /\ is_connected' = out.self.is_connected
        /\ rc_last' = RcRet("connect", out.ok, out.ret, FALSE)
        /\ rc_lastCD' = "connect"

Disconnect ==
    LET out == disconnect(Self)
    IN  /\ connection_string' = out.self.connection_string
        /\ is_connected' = out.self.is_connected
        /\ rc_last' = RcRet("disconnect", out.ok, NoStr, FALSE)
        /\ rc_lastCD' = "disconnect"

IsConnected ==
    /\ rc_last' = RcRet("is_connected", TRUE, NoStr, is_connected_get(Self))
    /\ UNCHANGED <<connection_string, is_connected, rc_lastCD>>

Repr ==
    /\ rc_last' = RcRet("__repr__", TRUE, repr(Self), FALSE)
    /\ UNCHANGED <<connection_string, is_connected, rc_lastCD>>

---------------------------------------------------------------------------
(* bulk_copy.rs: values crossing the Python boundary *)

None == "None"

NoErr == [kind |-> "", msg |-> <<>>]

\* PyResult: Ok(value) or Err(PyErr)
Ok(v) == [ok |-> TRUE, val |-> v, err |-> NoErr]

Err(kind, msg) == [ok |-> FALSE, val |-> "", err |-> [kind |-> kind, msg |-> msg]]

\* Display of a PyErr, as format!("{}", e) prints it: "<type name>: <str(value)>"
ErrText(e) == <<e.kind, ": ">> \o e.msg

\* whether the fragments of part occur, consecutively, in msg
ContainsSeq(msg, part) ==
    \E i \in 0..(Len(msg) - Len(part)) : SubSeq(msg, i + 1, i + Len(part)) = part

\* a call the wrapper makes on an external object
Call(target, op, name, args) == [target |-> target, op |-> op, name |-> name, args |-> args]

\* ---- the external world: mssql_core_tds, which the repository treats as opaque ----
ParamMaps == {"params_full", "params_missing_keys"}
Tables    == {"orders", "dbo.t1"}
Rows      == {"rows_none", "rows_two"}
Results   == {"42", None}
Handles   == {"conn_1", "conn_2"}

ErrKinds  == {"ValueError", "RuntimeError", "AttributeError"}
ErrMsgs   == {<<"boom">>, <<"login timeout">>}
ExtErrors == {Err(k, m) : k \in ErrKinds, m \in ErrMsgs}

\* what the held object exposes under the name bulk_copy
Shapes == {"absent", "callable", "noncallable", "raises"}

NoExt == [id |-> "none", attr |-> "absent", copies |-> 0, closes |-> 0]

ImportOutcomes  == {Ok("mssql_core_tds")} \cup ExtErrors
GetattrOutcomes == {Ok("DdbcConnection")} \cup ExtErrors
CtorOutcomes    == {Ok(h) : h \in Handles} \cup ExtErrors

\* hasattr: false on AttributeError, any other error of the lookup is returned
HasattrOutcomes(attr) ==
    CASE attr = "absent" -> {Ok("False")}
      [] attr = "raises" -> {e \in ExtErrors : e.err.kind # "AttributeError"}
      [] OTHER           -> {Ok("True")}

\* call_method1("bulk_copy", ...): the object's own result or error when the
\* attribute is callable, Python's TypeError when it is not
CallOutcomes(attr) ==
    CASE attr = "callable"    -> {Ok(r) : r \in Results} \cup ExtErrors
      [] attr = "noncallable" -> {Err("TypeError", <<"object is not callable">>)}
      [] OTHER                -> {Err("AttributeError", <<"no attribute bulk_copy">>)}

CloseOutcomes == {Ok(r) : r \in Results} \cup ExtErrors

---------------------------------------------------------------------------
(* bulk_copy.rs: BulkCopyWrapper *)

NoWrapper == [exists |-> FALSE, connection |-> "none"]

CapabilityMissingMsg == <<"bulk_copy method not implemented in mssql_core_tds.DdbcConnection">>

ImportCall  == Call("python", "import", "mssql_core_tds", <<>>)
GetattrCall == Call("mssql_core_tds", "getattr", "DdbcConnection", <<>>)
CtorCall(p) == Call("DdbcConnection", "call1", "", <<p>>)

BulkCopyWrapper_new_Degrade(params, imp, ga, ctor) ==
    IF ~imp.ok THEN
        [self   |-> NoWrapper,
         calls  |-> <<ImportCall>>,
         result |-> Err("ImportError", <<"Failed to import mssql_core_tds: ">> \o ErrText(imp.err))]
    ELSE IF ~ga.ok THEN
        [self   |-> NoWrapper,
         calls  |-> <<ImportCall, GetattrCall>>,
         result |-> Err("AttributeError", <<"Failed to get DdbcConnection class: ">> \o ErrText(ga.err))]
    ELSE IF ~ctor.ok THEN
        [self   |-> [exists |-> TRUE, connection |-> "conn_1"],
         calls  |-> <<ImportCall, GetattrCall, CtorCall(params)>>,
         result |-> Err("RuntimeError", <<"Failed to create DdbcConnection: ">> \o ErrText(ctor.err))]
    ELSE
        [self   |-> [exists |-> TRUE, connection |-> ctor.val],
         calls  |-> <<ImportCall, GetattrCall, CtorCall(params)>>,
         result |-> Ok("BulkCopyWrapper")]

\* BulkCopyWrapper::new: import_bound, getattr, call1, each followed by map_err(..)?
BulkCopyWrapper_new(params, imp, ga, ctor) ==
    IF ~imp.ok THEN
        [self   |-> NoWrapper,
         calls  |-> <<ImportCall>>,
         result |-> Err("ImportError", <<"Failed to import mssql_core_tds: ">> \o ErrText(imp.err))]
    ELSE IF ~ga.ok THEN
        [self   |-> NoWrapper,
         calls  |-> <<ImportCall, GetattrCall>>,
         result |-> Err("AttributeError", <<"Failed to get DdbcConnection class: ">> \o ErrText(ga.err))]
    ELSE IF ~ctor.ok THEN
        [self   |-> NoWrapper,
         calls  |-> <<ImportCall, GetattrCall, CtorCall(params)>>,
         result |-> Err("RuntimeError", <<"Failed to create DdbcConnection: ">> \o ErrText(ctor.err))]
    ELSE
        [self   |-> [exists |-> TRUE, connection |-> ctor.val],
         calls  |-> <<ImportCall, GetattrCall, CtorCall(params)>>,
         result |-> Ok("BulkCopyWrapper")]

HasattrCall(self)            == Call(self.connection, "hasattr", "bulk_copy", <<>>)
BulkCopyCall(self, table, d) == Call(self.connection, "call_method1", "bulk_copy", <<table, d>>)
CloseCall(self)              == Call(self.connection, "call_method0", "close", <<>>)

\* the Err arm of the match: PyRuntimeError with the table name and the original text
BulkCopyFailed(table_name, e) ==
    Err("RuntimeError", <<"Bulk copy failed for table '", table_name, "': ">> \o ErrText(e))

bulk_copy_DropResult(self, table_name, data, has, call) ==
    IF ~has.ok THEN [self |-> self, calls |-> <<HasattrCall(self)>>, result |-> has]
    ELSE IF has.val = "False" THEN
        [self |-> self, calls |-> <<HasattrCall(self)>>,
         result |-> Err("AttributeError", CapabilityMissingMsg)]
    ELSE
        [self |-> self,
         calls |-> <<HasattrCall(self), BulkCopyCall(self, table_name, data)>>,
         result |-> IF call.ok THEN Ok(None) ELSE BulkCopyFailed(table_name, call.err)]

bulk_copy_NoProbe(self, table_name, data, has, call) ==
    [self |-> self,
     calls |-> <<BulkCopyCall(self, table_name, data)>>,
     result |-> IF call.ok THEN Ok(call.val) ELSE BulkCopyFailed(table_name, call.err)]

bulk_copy_Verbatim(self, table_name, data, has, call) ==
    IF ~has.ok THEN [self |-> self, calls |-> <<HasattrCall(self)>>, result |-> has]
    ELSE IF has.val = "False" THEN
        [self |-> self, calls |-> <<HasattrCall(self)>>,
         result |-> Err("AttributeError", CapabilityMissingMsg)]
    ELSE
        [self |-> self,
         calls |-> <<HasattrCall(self), BulkCopyCall(self, table_name, data)>>,
         result |-> call]

\* BulkCopyWrapper::bulk_copy
bulk_copy(self, table_name, data, has, call) ==
    IF ~has.ok THEN [self |-> self, calls |-> <<HasattrCall(self)>>, result |-> has]
    ELSE IF has.val = "False" THEN
        [self |-> self, calls |-> <<HasattrCall(self)>>,
         result |-> Err("AttributeError", CapabilityMissingMsg)]
    ELSE
        [self |-> self,
         calls |-> <<HasattrCall(self), BulkCopyCall(self, table_name, data)>>,
         result |-> IF call.ok THEN Ok(call.val) ELSE BulkCopyFailed(table_name, call.err)]

close_Enrich(self, out) ==
    [self |-> self,
     calls |-> <<CloseCall(self)>>,
     result |-> IF out.ok THEN Ok(None)
                ELSE Err("RuntimeError", <<"Close failed: ">> \o ErrText(out.err))]

close_DropsConnection(self, out) ==
    [self |-> [self EXCEPT !.connection = "none"],
     calls |-> <<CloseCall(self)>>,
     result |-> IF out.ok THEN Ok(None) ELSE out]

\* BulkCopyWrapper::close
close(self, out) ==
    [self |-> self,
     calls |-> <<CloseCall(self)>>,
     result |-> IF out.ok THEN Ok(None) ELSE out]

NoOut == Ok("")

Last(op, params, table, data, attr, outs, closesBefore, calls, result) ==
    [op |-> op, params |-> params, table |-> table, data |-> data, attr |-> attr,
     outs |-> outs, closesBefore |-> closesBefore, calls |-> calls, result |-> result]

BcInit ==
    /\ wrapper = NoWrapper
    /\ ext = NoExt
    /\ bc_last = Last("none", "", "", "", "absent", <<>>, 0, <<>>, NoOut)
    /\ conn0 = "none"

\* the steps of new that follow a failed one have no outcome
NewWorlds ==
    {<<imp, NoOut, NoOut>> : imp \in {o \in ImportOutcomes : ~o.ok}}
        \cup {<<Ok("mssql_core_tds"), ga, NoOut>> : ga \in {o \in GetattrOutcomes : ~o.ok}}
        \cup {<<Ok("mssql_core_tds"), Ok("DdbcConnection"), ctor>> : ctor \in CtorOutcomes}

New(params) ==
    /\ ~wrapper.exists
    /\ \E w \in NewWorlds, shape \in Shapes :
          LET out == BulkCopyWrapper_new(params, w[1], w[2], w[3])
          IN  /\ wrapper' = out.self
              /\ conn0' = out.self.connection
              /\ ext' = IF w[1].ok /\ w[2].ok /\ w[3].ok
                        THEN [id |-> w[3].val, attr |-> shape, copies |-> 0, closes |-> 0]
                        ELSE ext
              /\ bc_last' = Last("new", params, "", "", "absent", w, 0, out.calls, out.result)

Count(calls, op) == Cardinality({i \in 1..Len(calls) : calls[i].op = op})

BulkCopy(table_name, data) ==
    /\ wrapper.exists
    /\ ext.copies < MaxCalls
    /\ \E has \in HasattrOutcomes(ext.attr), call \in CallOutcomes(ext.attr) :
          LET out == bulk_copy(wrapper, table_name, data, has, call)
              ran == ext.attr = "callable" /\ Count(out.calls, "call_method1") > 0
          IN  /\ wrapper' = out.self
              /\ ext' = [ext EXCEPT !.copies = IF ran THEN @ + 1 ELSE @]
              /\ bc_last' = Last("bulk_copy", "", table_name, data, ext.attr,
                                 <<has, call>>, ext.closes, out.calls, out.result)
              /\ UNCHANGED conn0

Close ==
    /\ wrapper.exists
    /\ ext.closes < MaxCalls
    /\ \E res \in CloseOutcomes :
          LET out == close(wrapper, res)
          IN  /\ wrapper' = out.self
              /\ ext' = [ext EXCEPT !.closes = @ + Count(out.calls, "call_method0")]
              /\ bc_last' = Last("close", "", "", "", ext.attr,
                                 <<res>>, ext.closes, out.calls, out.result)
              /\ UNCHANGED conn0

---------------------------------------------------------------------------
(* Specifications *)

\* BulkCopyWrapper
Init == BcInit /\ RcIdle /\ StrIdle

Next ==
    \/ \E p \in ParamMaps : New(p) /\ UNCHANGED <<rcVars, strVars>>
    \/ \E t \in Tables, d \in Rows : BulkCopy(t, d) /\ UNCHANGED <<rcVars, strVars>>
    \/ Close /\ UNCHANGED <<rcVars, strVars>>

Spec == Init /\ [][Next]_vars

\* RustConnection
RcSpecInit == RcInit /\ BcInit /\ StrIdle

RcNext ==
    \/ Connect /\ UNCHANGED <<bcVars, strVars>>
    \/ Disconnect /\ UNCHANGED <<bcVars, strVars>>
    \/ IsConnected /\ UNCHANGED <<bcVars, strVars>>
    \/ Repr /\ UNCHANGED <<bcVars, strVars>>

SpecConn == RcSpecInit /\ [][RcNext]_vars

\* format_connection_string, parse_connection_params
StrSpecInit == StrInit /\ BcInit /\ RcIdle

StrNext ==
    \/ FormatConnectionString /\ UNCHANGED <<bcVars, rcVars>>
    \/ ParseConnectionParams /\ UNCHANGED <<bcVars, rcVars>>

SpecStr == StrSpecInit /\ [][StrNext]_vars

---------------------------------------------------------------------------
(* Properties of the connection-string helpers (under SpecStr) *)

HasNoSemicolon(s) == \A i \in 1..Len(s) : s[i] # ";"

HasNoOuterWhitespace(s) == s = <<>> \/ (s[1] # " " /\ s[Len(s)] # " ")

RoundTripInput(s) == HasNoSemicolon(s) /\ HasNoOuterWhitespace(s)

ServerKey   == <<"S", "e", "r", "v", "e", "r">>
DatabaseKey == <<"D", "a", "t", "a", "b", "a", "s", "e">>
UserIdKey   == <<"U", "s", "e", "r", " ", "I", "d">>

\* C10: for host, database and user without ';' and without leading or trailing
\* whitespace, parsing the formatted connection string yields exactly the mapping
\* {"Server": host, "Database": database, "User Id": user}, with no other key.
C10_RoundTrip ==
    (str_pc = "parsed" /\ RoundTripInput(host) /\ RoundTripInput(database) /\ RoundTripInput(user))
        => /\ DOMAIN parsed = {ServerKey, DatabaseKey, UserIdKey}
           /\ parsed[ServerKey] = host
           /\ parsed[DatabaseKey] = database
           /\ parsed[UserIdKey] = user

\* a round trip whose host holds '=' and an inner space, with a non-empty database
C10_Witness ==
    /\ str_pc = "parsed"
    /\ RoundTripInput(host) /\ RoundTripInput(database) /\ RoundTripInput(user)
    /\ \E i \in 1..Len(host) : host[i] = "="
    /\ database # <<>>
    /\ DOMAIN parsed = {ServerKey, DatabaseKey, UserIdKey}

---------------------------------------------------------------------------
(* Properties of RustConnection (under SpecConn) *)

ConnectedTo == <<"C", "o", "n", "n", "e", "c", "t", "e", "d", " ", "t", "o", ":", " ">>

C9_State ==
    /\ is_connected = (rc_lastCD = "connect")
    /\ rc_last.ok
    /\ rc_last.op = "new" => ~is_connected
    /\ rc_last.op = "is_connected" => rc_last.bool = (rc_lastCD = "connect")
    /\ rc_last.op = "connect" => rc_last.str = ConnectedTo \o connection_string

\* C9: a new RustConnection is not connected; is_connected() is true exactly when
\* the most recent connect/disconnect call was connect; no call fails; connect
\* returns "Connected to: " followed by the connection string; and no method
\* changes connection_string.
C9_TwoState == [](C9_State) /\ [][connection_string' = connection_string]_vars

\* is_connected() answering true after a connect, on a non-empty connection string
C9_Witness ==
    /\ rc_last.op = "is_connected"
    /\ rc_last.bool
    /\ rc_lastCD = "connect"
    /\ connection_string # <<>>

ReprPrefix ==
    <<"R", "u", "s", "t", "C", "o", "n", "n", "e", "c", "t", "i", "o", "n", "(",
      "c", "o", "n", "n", "e", "c", "t", "i", "o", "n", "_", "s", "t", "r", "i", "n", "g", "=", "'">>

ReprMiddle == <<"'", ",", " ", "c", "o", "n", "n", "e", "c", "t", "e", "d", "=">>

\* C8 as claimed: every __repr__ returns one fixed string, the one a freshly
\* constructed object with another argument displays, whatever the state.
C8_FixedRepr ==
    rc_last.op = "__repr__" => rc_last.str = repr(RustConnection_new(<<>>))

\* C8 amended: __repr__ returns "RustConnection(connection_string='<cs>',
\* connected=<true|false>)" built from the current fields, so the string tells
\* the connection string and the connected flag apart; it changes no field.
C8_ReprReflectsState ==
    rc_last.op = "__repr__" =>
        /\ rc_last.str = ReprPrefix \o connection_string \o ReprMiddle
                             \o (IF is_connected THEN <<"t", "r", "u", "e">>
                                                 ELSE <<"f", "a", "l", "s", "e">>)
                             \o <<")">>
        /\ \A cs \in Strings, b \in BOOLEAN :
              repr([connection_string |-> cs, is_connected |-> b]) = rc_last.str
                  => (cs = connection_string /\ b = is_connected)

\* __repr__ of a connected object built from a non-empty connection string
C8_Witness ==
    /\ rc_last.op = "__repr__"
    /\ is_connected
    /\ connection_string # <<>>

---------------------------------------------------------------------------
(* Properties of BulkCopyWrapper (under Spec) *)

Ops(calls) == [i \in 1..Len(calls) |-> calls[i].op]

ExternalRaised == bc_last.op = "bulk_copy" /\ bc_last.attr = "callable" /\ ~bc_last.outs[2].ok

\* C1: when the held connection exposes bulk_copy and the external call succeeds,
\* the wrapper calls the external bulk_copy exactly once, with (table_name, data)
\* as given, and returns exactly the value the external call returned.
C1_PassThrough ==
    (bc_last.op = "bulk_copy" /\ bc_last.attr = "callable" /\ bc_last.outs[2].ok)
        => /\ Count(bc_last.calls, "call_method1") = 1
           /\ \E i \in 1..Len(bc_last.calls) :
                 bc_last.calls[i] = [target |-> ext.id, op |-> "call_method1",
                                     name |-> "bulk_copy",
                                     args |-> <<bc_last.table, bc_last.data>>]
           /\ bc_last.result.ok
           /\ bc_last.result.val = bc_last.outs[2].val

\* a successful bulk_copy whose external result is 42
C1_Witness ==
    /\ bc_last.op = "bulk_copy"
    /\ bc_last.attr = "callable"
    /\ bc_last.outs[2].ok
    /\ bc_last.outs[2].val = "42"
    /\ bc_last.table = "orders"

\* C2: on a connection without a bulk_copy attribute the call fails with the
\* AttributeError whose message is exactly the fixed capability-missing text, and
\* no method of the external object is called.
C2_CapabilityMissing ==
    (bc_last.op = "bulk_copy" /\ bc_last.attr = "absent")
        => /\ ~bc_last.result.ok
           /\ bc_last.result.err.kind = "AttributeError"
           /\ bc_last.result.err.msg =
                  <<"bulk_copy method not implemented in mssql_core_tds.DdbcConnection">>
           /\ Ops(bc_last.calls) = <<"hasattr">>
           /\ ext.copies = 0

\* bulk_copy called on a connection without the attribute
C2_Witness ==
    /\ bc_last.op = "bulk_copy"
    /\ bc_last.attr = "absent"
    /\ bc_last.table = "dbo.t1"
    /\ bc_last.data = "rows_two"

NewFailed == bc_last.op = "new" /\ ~bc_last.result.ok

\* C4: construction imports the module, resolves DdbcConnection and calls it
\* with the mapping, in that order, and stops at the first failure: ImportError
\* for the import, AttributeError for the lookup, RuntimeError holding the cause
\* for the call; after a failure no later step ran, no wrapper exists and the
\* external bulk_copy and close were never called.
C4_ConstructionFailure ==
    bc_last.op = "new" =>
        LET imp  == bc_last.outs[1]
            ga   == bc_last.outs[2]
            ctor == bc_last.outs[3]
        IN  /\ bc_last.result.ok = (imp.ok /\ ga.ok /\ ctor.ok)
            /\ ~imp.ok =>
                  /\ bc_last.result.err.kind = "ImportError"
                  /\ Ops(bc_last.calls) = <<"import">>
            /\ (imp.ok /\ ~ga.ok) =>
                  /\ bc_last.result.err.kind = "AttributeError"
                  /\ Ops(bc_last.calls) = <<"import", "getattr">>
            /\ (imp.ok /\ ga.ok) =>
                  /\ Ops(bc_last.calls) = <<"import", "getattr", "call1">>
                  /\ bc_last.calls[3].args = <<bc_last.params>>
            /\ (imp.ok /\ ga.ok /\ ~ctor.ok) =>
                  /\ bc_last.result.err.kind = "RuntimeError"
                  /\ ContainsSeq(bc_last.result.err.msg, ctor.err.msg)
            /\ ~bc_last.result.ok =>
                  /\ ~wrapper.exists
                  /\ ext.copies = 0
                  /\ ext.closes = 0

\* the constructor call failed after the module and the class were resolved
C4_Witness ==
    /\ NewFailed
    /\ bc_last.outs[1].ok
    /\ bc_last.outs[2].ok
    /\ bc_last.params = "params_missing_keys"

\* C5: close calls the held connection's close once, with no arguments; an error
\* of the external close reaches the caller as it is, and on success close
\* returns no value.
C5_CloseForwards ==
    bc_last.op = "close"
        => /\ bc_last.calls = <<[target |-> ext.id, op |-> "call_method0",
                                 name |-> "close", args |-> <<>>]>>
           /\ bc_last.outs[1].ok => (bc_last.result.ok /\ bc_last.result.val = "None")
           /\ ~bc_last.outs[1].ok => bc_last.result = bc_last.outs[1]

\* the external close raised a ValueError
C5_Witness ==
    /\ bc_last.op = "close"
    /\ ~bc_last.outs[1].ok
    /\ bc_last.outs[1].err.kind = "ValueError"

\* C6: the wrapper keeps the connection reference it got at construction through
\* every bulk_copy and close, failed or not, and forwards every later call to that
\* object whatever was closed before; the call succeeds exactly when the external
\* call does.
C6_NoOwnState ==
    wrapper.exists
        => /\ wrapper.connection = conn0
           /\ wrapper.connection = ext.id
           /\ bc_last.op \in {"bulk_copy", "close"} =>
                 /\ bc_last.calls # <<>>
                 /\ \A i \in 1..Len(bc_last.calls) : bc_last.calls[i].target = ext.id
           /\ bc_last.op = "close" =>
                 /\ Count(bc_last.calls, "call_method0") = 1
                 /\ bc_last.result.ok = bc_last.outs[1].ok
           /\ (bc_last.op = "bulk_copy" /\ bc_last.attr = "callable") =>
                 /\ Count(bc_last.calls, "call_method1") = 1
                 /\ bc_last.result.ok = bc_last.outs[2].ok

\* bulk_copy forwarded, and succeeding, after close was called twice
C6_Witness ==
    /\ wrapper.exists
    /\ bc_last.op = "bulk_copy"
    /\ bc_last.closesBefore >= 2
    /\ bc_last.result.ok

\* C7: bulk_copy is called only when the connection exposes a callable bulk_copy;
\* when the attribute is missing, or present but not callable, the call fails with
\* the AttributeError carrying the fixed capability-missing message.
C7_CallableChecked ==
    (bc_last.op = "bulk_copy" /\ bc_last.attr # "raises")
        => IF bc_last.attr = "callable"
           THEN Count(bc_last.calls, "call_method1") = 1
           ELSE /\ ~bc_last.result.ok
                /\ bc_last.result.err.kind = "AttributeError"
                /\ bc_last.result.err.msg =
                       <<"bulk_copy method not implemented in mssql_core_tds.DdbcConnection">>

=============================================================================
